---- MODULE Spec2Model ----
(***************************************************************************)
(* Model of the two caches of sa-pharma-mcp and of the tool on top:        *)
(*   - src/ndoh_utils.py: get_latest_ndoh_prod_list_df, the on-disk cache  *)
(*     of the NDoH Master Health Product List, keyed by the discovered     *)
(*     download link (LINK_TRACKER + CACHE_FILE);                          *)
(*   - src/sahpra_utils.py: get_sahpra_nonce, the in-memory nonce slot     *)
(*     with a 12 hour lifetime;                                            *)
(*   - src/server.py: get_licensed_companies, which obtains the nonce and  *)
(*     requests a table with it.                                           *)
(* A coroutine runs without interruption between two awaits, so one action *)
(* is one such segment: from the call (or the resumption after an await)   *)
(* to the next await, return or raise.                                     *)
(*                                                                         *)
(* Environment: every network request may fail in transport, answer with   *)
(* an error status or answer with any body of the input sets below; the    *)
(* read of LINK_TRACKER and either persistence write may raise.  A write   *)
(* that raises leaves its file as it was (each file is one slot of the     *)
(* two-slot store); CACHE_FILE, once written by to_csv, is readable.       *)
(***************************************************************************)
EXTENDS Integers, Sequences, FiniteSets, TLC

(***************************************************************************)
(* Bounds of the model.                                                    *)
(***************************************************************************)
\* Longest data sheet (rows below the header) of a downloaded workbook.
MaxRows == 3
\* Most href attributes on the tenders listing page.
MaxLinks == 2

\* The clock runs over the seconds around each multiple of the nonce lifetime,
\* up to this many lifetimes.
MaxPeriods == 2
\* Longest text of the nonce field of the approved-licences page.
MaxNonceLen == 2

\* The coroutines that may call into a cache.
Callers == {1, 2}

(***************************************************************************)
(* State: the two files of ./data and the calls of                         *)
(* get_latest_ndoh_prod_list_df; the nonce slot, the clock and the calls   *)
(* of get_sahpra_nonce.                                                    *)
(***************************************************************************)
VARIABLES
    linkFile,      \* LINK_TRACKER: [exists, text]
    cacheFile,     \* CACHE_FILE: [exists, rows, src]; src records the link
                   \* whose download the rows were built from
    spc,           \* per caller: "idle", "discovering" (await of line 62),
                   \* "fetching" (await of line 74)
    current_link,  \* per caller: current_link of the call ("" before line 62 returns)
    response,      \* per caller: the body of the dataset response
    sres,          \* per caller: how its last call ended
    sfetches,      \* per caller: dataset GETs issued by its last call
    sdisc,         \* per caller: what the listing GET of its last call gave
    atStart,       \* per caller: the two files as they were when the call began
    prev,          \* per caller: summary of the call before its last one
    trace,         \* per caller: the steps its last call took, in order, as
                   \* [op, arg] (arg: the URL requested or the text written)
    parsed         \* the links whose download was fetched and parsed by some call

svars == <<linkFile, cacheFile, spc, current_link, response, sres, sfetches, sdisc, atStart, prev,
           trace, parsed>>

VARIABLES
    clock,         \* time.time()
    nonce_cache,   \* _nonce_cache: [value, timestamp]
    npc,           \* per caller: "idle", "awaiting" (await of line 39)
    now,           \* per caller: now of its last call (line 28)
    nresp,         \* per caller: what the GET of its last call gave
    nres,          \* per caller: how its last call ended
    nsaw,          \* per caller: _nonce_cache as its last call found it
    nfetched,      \* per caller: whether its last call issued the GET
    extracted      \* the values line 42 extracted from a response so far

nvars == <<clock, nonce_cache, npc, now, nresp, nres, nsaw, nfetched, extracted>>

VARIABLES
    tpc,           \* per caller of get_licensed_companies: "idle", "nonce"
                   \* (await of line 81), "data" (await of line 93)
    tcat,          \* per caller: category of its last call
    tres,          \* per caller: what its last call gave back
    treq,          \* per caller: the request of line 93 of its last call
    tresp,         \* per caller: what that request gave
    tnet,          \* per caller: requests its last call has sent
    tslot          \* per caller: _nonce_cache as its last call began, then as
                   \* get_sahpra_nonce left it

tvars == <<tpc, tcat, tres, treq, tresp, tnet, tslot>>
vars == <<svars, nvars, tvars>>

(***************************************************************************)
(* src/ndoh_utils.py                                                       *)
(***************************************************************************)

\* The origin the discovered relative path is joined to (URL, line 29).
Origin == "https://www.health.gov.za"

\* Paths the listing page may link to.
RelPaths == {"/f1", "/f2"}

\* An href of the listing page: `key` says that its text contains
\* Master-Health-Product-List or MHPL (in any case), `xlsx` that it ends in
\* .xlsx after at least one more character, `path` is where it points.
Hrefs == [key : BOOLEAN, xlsx : BOOLEAN, path : RelPaths]

\* All sequences over S of length at most n.
SeqsUpTo(S, n) == UNION {[1..k -> S] : k \in 0..n}

\* Listing pages: the hrefs in document order.
Pages == SeqsUpTo(Hrefs, MaxLinks)

\* The pattern of line 39 on one href.
HrefMatches(h) == h.key /\ h.xlsx

\* re.search (lines 38-42): the first href of the page that matches.
RECURSIVE ReSearch(_)
ReSearch(page) ==
    IF page = <<>> THEN [found |-> FALSE, group1 |-> ""]
    ELSE IF HrefMatches(Head(page))
         THEN [found |-> TRUE, group1 |-> Head(page).path]
         ELSE ReSearch(Tail(page))

\* urljoin(URL, RELATIVE_PATH) for an absolute path (line 46).
UrlJoin(rel) == Origin \o rel

\* The version tokens discovery can produce.
Tokens == {UrlJoin(r) : r \in RelPaths}

\* httpx raise_for_status: any status outside 2xx raises.
RaiseForStatus(status) == ~(status >= 200 /\ status <= 299)

StatusCodes == {200, 404}

\* What the GET of the listing page can give: a transport error, or a
\* response with a status and a page.
DiscoveryOutcomes ==
    {[net |-> FALSE, status |-> 0, page |-> <<>>]}
    \cup [net : {TRUE}, status : StatusCodes, page : Pages]

\* What kind of answer the listing GET gave: no answer, an error status, a
\* page none of whose hrefs is an MHPL workbook link, or a page with one.
PageClass(d) ==
    IF ~d.net THEN "transport"
    ELSE IF d.status >= 300 \/ d.status < 200 THEN "status"
    ELSE IF \A i \in 1..Len(d.page) : ~(d.page[i].key /\ d.page[i].xlsx) THEN "nolink"
    ELSE "link"

\* Mutant of DiscoverLink: a page without a matching href gives an empty link
\* instead of raising ValueError.
DiscoverLinkSilent(d) ==
    IF ~d.net THEN [ok |-> FALSE, link |-> "", err |-> "ConnectError"]
    ELSE IF RaiseForStatus(d.status)
         THEN [ok |-> FALSE, link |-> "", err |-> "HTTPStatusError"]
    ELSE LET match == ReSearch(d.page) IN
         IF match.found
         THEN [ok |-> TRUE, link |-> UrlJoin(match.group1), err |-> ""]
         ELSE [ok |-> TRUE, link |-> "", err |-> ""]

\* discover_latest_ndoh_prod_list_link (lines 25-52): the link, or the error
\* it raises.
DiscoverLink(d) ==
    IF ~d.net THEN [ok |-> FALSE, link |-> "", err |-> "ConnectError"]
    ELSE IF RaiseForStatus(d.status)
         THEN [ok |-> FALSE, link |-> "", err |-> "HTTPStatusError"]
    ELSE LET match == ReSearch(d.page) IN
         IF match.found
         THEN [ok |-> TRUE, link |-> UrlJoin(match.group1), err |-> ""]
         ELSE [ok |-> FALSE, link |-> "", err |-> "ValueError"]

(***************************************************************************)
(* The workbook and the data frame.                                        *)
(***************************************************************************)

\* A Description cell: empty (NaN after read_excel), or a text.
NaN == [na |-> TRUE, text |-> ""]
Cells == {NaN, [na |-> FALSE, text |-> "aspirin"]}

\* The last position of target_columns (line 80).
LastTargetColumn == 31

\* Bodies a dataset GET can return: bytes that are no workbook, a workbook
\* with too few columns for the projection, or a workbook with all columns.
\* `rows` are the Description cells of the rows below the header (header=3).
Workbooks ==
    {[xlsx |-> FALSE, ncols |-> 0, rows |-> <<>>]}
    \cup [xlsx : {TRUE}, ncols : {LastTargetColumn}, rows : SeqsUpTo(Cells, 1)]
    \cup [xlsx : {TRUE}, ncols : {LastTargetColumn + 1}, rows : SeqsUpTo(Cells, MaxRows)]

FetchOutcomes ==
    {[net |-> FALSE, status |-> 0, content |-> [xlsx |-> FALSE, ncols |-> 0, rows |-> <<>>]]}
    \cup [net : {TRUE}, status : StatusCodes, content : Workbooks]

\* pandas.read_excel(..., header=3) (line 78): a frame whose rows carry the
\* index label pandas gives them (0, 1, ...), `id` standing for the content of
\* the other columns of source row id, and the Description cell.
ReadExcel(content) ==
    [i \in 1..Len(content.rows) |->
        [idx |-> i - 1, id |-> i, Description |-> content.rows[i]]]

\* raw_df.iloc[:, target_columns] (line 81) raises IndexError unless every
\* target position exists.
ProjectionFails(content) == content.ncols <= LastTargetColumn

\* Mutant of DropNa: the dropna of line 89 is missing.
DropNaMissing(df) == df

\* df.dropna(subset=["Description"]) (line 89): rows keep their order and
\* their index labels.
DropNa(df) == SelectSeq(df, LAMBDA r : ~r.Description.na)

\* df.to_csv(CACHE_FILE, index=False) (line 91): the index labels are not
\* written; NaN is written as the empty field.
ToCsv(df) ==
    [i \in 1..Len(df) |->
        [id |-> df[i].id,
         Description |-> IF df[i].Description.na THEN "" ELSE df[i].Description.text]]

\* pandas.read_csv(CACHE_FILE) (lines 71, 102): a fresh RangeIndex; the empty
\* field reads as NaN.
ReadCsv(csv) ==
    [i \in 1..Len(csv) |->
        [idx |-> i - 1, id |-> csv[i].id,
         Description |-> IF csv[i].Description = "" THEN NaN
                         ELSE [na |-> FALSE, text |-> csv[i].Description]]]

\* Lines 78-89: the frame built from a response body, or the error.
BuildFrame(content) ==
    IF ~content.xlsx THEN [ok |-> FALSE, df |-> <<>>, err |-> "BadZipFile"]
    ELSE IF ProjectionFails(content) THEN [ok |-> FALSE, df |-> <<>>, err |-> "IndexError"]
    ELSE [ok |-> TRUE, df |-> DropNa(ReadExcel(content)), err |-> ""]

(***************************************************************************)
(* The durable store and the calls.                                        *)
(***************************************************************************)

NoLinkFile == [exists |-> FALSE, text |-> ""]
NoCacheFile == [exists |-> FALSE, rows |-> <<>>, src |-> ""]
NoContent == [xlsx |-> FALSE, ncols |-> 0, rows |-> <<>>]
\* kind: "none" (no call ended yet), "df" (a frame was returned), "error"
\* (an exception reached the caller); via: the return statement taken;
\* failed: the step of the try block that raised; err: what it raised.
NoResult == [kind |-> "none", df |-> <<>>, via |-> "none", failed |-> "none", err |-> ""]
NoPrev == [ended |-> FALSE, link |-> "", failed |-> "none", kind |-> "none", via |-> "none", fetches |-> 0]

\* A fresh installation: ./data holds neither file, no call was made.
SInit ==
    /\ linkFile = NoLinkFile
    /\ cacheFile = NoCacheFile
    /\ spc = [p \in Callers |-> "idle"]
    /\ current_link = [p \in Callers |-> ""]
    /\ response = [p \in Callers |-> NoContent]
    /\ sres = [p \in Callers |-> NoResult]
    /\ sfetches = [p \in Callers |-> 0]
    /\ sdisc = [p \in Callers |-> "none"]
    /\ atStart = [p \in Callers |-> [link |-> NoLinkFile, cache |-> NoCacheFile]]
    /\ prev = [p \in Callers |-> NoPrev]
    /\ trace = [p \in Callers |-> <<>>]
    /\ parsed = {}

\* Mutant of LastLink: the text is not stripped and the file ends in a newline.
LastLinkNotStripped(lf) == IF lf.exists THEN lf.text \o "\n" ELSE ""

\* Lines 64-67: last_link (the stored link has no surrounding white space, so
\* strip() gives the text that line 93 wrote).
LastLink(lf) == IF lf.exists THEN lf.text ELSE ""

\* Mutant of CacheUpToDate: the links are not compared.
CacheUpToDateAnyLink(last_link, cur, cf) == cf.exists

\* Line 69: the freshness decision.
CacheUpToDate(last_link, cur, cf) == last_link = cur /\ cf.exists

\* Mutant of ExceptClause: an empty frame is returned instead of CACHE_FILE.
ExceptClauseEmptyFrame(step, e, cf) ==
    IF cf.exists
    THEN [kind |-> "df", df |-> <<>>, via |-> "fallback", failed |-> step, err |-> e]
    ELSE [kind |-> "error", df |-> <<>>, via |-> "raise", failed |-> step, err |-> e]

\* Mutant of ExceptClause: the exception is always raised again.
ExceptClauseReraise(step, e, cf) ==
    [kind |-> "error", df |-> <<>>, via |-> "raise", failed |-> step, err |-> e]

\* Lines 98-103: the except clause, entered with the files as they are when
\* the exception is raised.
ExceptClause(step, e, cf) ==
    IF cf.exists
    THEN [kind |-> "df", df |-> ReadCsv(cf.rows), via |-> "fallback", failed |-> step, err |-> e]
    ELSE [kind |-> "error", df |-> <<>>, via |-> "raise", failed |-> step, err |-> e]

\* One step of a call, as the trace records it.
Step(op, arg) == [op |-> op, arg |-> arg]

\* Mutant of SnapBegin: when both files exist the stored snapshot is returned
\* at once, before any discovery.
SnapBeginCacheFirst(p) ==
    /\ spc[p] = "idle"
    /\ prev' = [prev EXCEPT ![p] =
                  IF sres[p].kind = "none" THEN prev[p]
                  ELSE [ended |-> TRUE, link |-> current_link[p], failed |-> sres[p].failed,
                        kind |-> sres[p].kind, via |-> sres[p].via,
                        fetches |-> sfetches[p]]]
    /\ response' = [response EXCEPT ![p] = NoContent]
    /\ sfetches' = [sfetches EXCEPT ![p] = 0]
    /\ sdisc' = [sdisc EXCEPT ![p] = "none"]
    /\ atStart' = [atStart EXCEPT ![p] = [link |-> linkFile, cache |-> cacheFile]]
    /\ IF linkFile.exists /\ cacheFile.exists
       THEN /\ current_link' = [current_link EXCEPT ![p] = LastLink(linkFile)]
            /\ sres' = [sres EXCEPT ![p] = [kind |-> "df", df |-> ReadCsv(cacheFile.rows),
                                            via |-> "hit", failed |-> "none", err |-> ""]]
            /\ trace' = [trace EXCEPT ![p] = <<Step("compare", LastLink(linkFile))>>]
            /\ UNCHANGED spc
       ELSE /\ current_link' = [current_link EXCEPT ![p] = ""]
            /\ sres' = [sres EXCEPT ![p] = NoResult]
            /\ trace' = [trace EXCEPT ![p] = <<Step("discover", Origin)>>]
            /\ spc' = [spc EXCEPT ![p] = "discovering"]
    /\ UNCHANGED <<linkFile, cacheFile, parsed>>
    /\ UNCHANGED <<nvars, tvars>>

\* The call begins (lines 55-62) and awaits the listing page.
SnapBegin(p) ==
    /\ spc[p] = "idle"
    /\ spc' = [spc EXCEPT ![p] = "discovering"]
    /\ prev' = [prev EXCEPT ![p] =
                  IF sres[p].kind = "none" THEN prev[p]
                  ELSE [ended |-> TRUE, link |-> current_link[p], failed |-> sres[p].failed,
                        kind |-> sres[p].kind, via |-> sres[p].via,
                        fetches |-> sfetches[p]]]
    /\ current_link' = [current_link EXCEPT ![p] = ""]
    /\ response' = [response EXCEPT ![p] = NoContent]
    /\ sres' = [sres EXCEPT ![p] = NoResult]
    /\ sfetches' = [sfetches EXCEPT ![p] = 0]
    /\ sdisc' = [sdisc EXCEPT ![p] = "none"]
    /\ atStart' = [atStart EXCEPT ![p] = [link |-> linkFile, cache |-> cacheFile]]
    /\ trace' = [trace EXCEPT ![p] = <<Step("discover", Origin)>>]
    /\ UNCHANGED <<linkFile, cacheFile, parsed>>
    /\ UNCHANGED <<nvars, tvars>>

\* The call ends with result r.
SnapEnd(p, r) ==
    /\ spc' = [spc EXCEPT ![p] = "idle"]
    /\ sres' = [sres EXCEPT ![p] = r]

\* The listing page arrived or failed (lines 62-74, 98-103): d is the outcome
\* of the GET, readOk says whether LINK_TRACKER can be read.
SnapDiscovered(p, d, readOk) ==
    /\ spc[p] = "discovering"
    /\ sdisc' = [sdisc EXCEPT ![p] = PageClass(d)]
    /\ LET disc == DiscoverLink(d) IN
       IF ~disc.ok
       THEN /\ SnapEnd(p, ExceptClause("discovery", disc.err, cacheFile))
            /\ UNCHANGED <<current_link, sfetches, trace>>
       ELSE /\ current_link' = [current_link EXCEPT ![p] = disc.link]
            /\ IF linkFile.exists /\ ~readOk
               THEN /\ SnapEnd(p, ExceptClause("tokenread", "OSError", cacheFile))
                    /\ UNCHANGED <<sfetches, trace>>
               ELSE IF CacheUpToDate(LastLink(linkFile), disc.link, cacheFile)
               THEN /\ SnapEnd(p, [kind |-> "df", df |-> ReadCsv(cacheFile.rows),
                                   via |-> "hit", failed |-> "none", err |-> ""])
                    /\ trace' = [trace EXCEPT ![p] =
                                   Append(@, Step("compare", LastLink(linkFile)))]
                    /\ UNCHANGED sfetches
               ELSE /\ spc' = [spc EXCEPT ![p] = "fetching"]
                    /\ sfetches' = [sfetches EXCEPT ![p] = 1]
                    /\ trace' = [trace EXCEPT ![p] =
                                   @ \o <<Step("compare", LastLink(linkFile)),
                                          Step("fetch", disc.link)>>]
                    /\ UNCHANGED sres
    /\ UNCHANGED <<linkFile, cacheFile, response, atStart, prev, parsed>>
    /\ UNCHANGED <<nvars, tvars>>

\* Lines 91-93 and the except clause: w is "ok", "csv" (to_csv raises) or
\* "link" (opening or writing LINK_TRACKER raises).
Persist(p, df, w) ==
    LET newCache == [exists |-> TRUE, rows |-> ToCsv(df), src |-> current_link[p]]
        newLink == [exists |-> TRUE, text |-> current_link[p]]
        toCsv == Step("persist_snapshot", current_link[p])
        write == Step("persist_token", current_link[p])
    IN CASE w = "csv" ->
              /\ SnapEnd(p, ExceptClause("csvwrite", "OSError", cacheFile))
              /\ trace' = [trace EXCEPT ![p] = @ \o <<Step("parse", current_link[p]), toCsv>>]
              /\ UNCHANGED <<linkFile, cacheFile>>
         [] w = "link" ->
              /\ cacheFile' = newCache
              /\ SnapEnd(p, ExceptClause("linkwrite", "OSError", newCache))
              /\ trace' = [trace EXCEPT ![p] =
                             @ \o <<Step("parse", current_link[p]), toCsv, write>>]
              /\ UNCHANGED linkFile
         [] OTHER ->
              /\ cacheFile' = newCache
              /\ linkFile' = newLink
              /\ trace' = [trace EXCEPT ![p] =
                             @ \o <<Step("parse", current_link[p]), toCsv, write>>]
              /\ SnapEnd(p, [kind |-> "df", df |-> df, via |-> "fresh",
                             failed |-> "none", err |-> ""])

PersistOutcomes == {"ok", "csv", "link"}

\* Mutant of SnapFetched: LINK_TRACKER is written as soon as the download
\* arrived, before it is parsed.
SnapFetchedLinkFirst(p, f, w) ==
    /\ spc[p] = "fetching"
    /\ IF ~f.net
       THEN /\ SnapEnd(p, ExceptClause("fetch", "ConnectError", cacheFile))
            /\ UNCHANGED <<linkFile, cacheFile, response, trace, parsed>>
       ELSE IF RaiseForStatus(f.status)
       THEN /\ SnapEnd(p, ExceptClause("fetch", "HTTPStatusError", cacheFile))
            /\ UNCHANGED <<linkFile, cacheFile, response, trace, parsed>>
       ELSE /\ response' = [response EXCEPT ![p] = f.content]
            /\ LET built == BuildFrame(f.content) IN
               IF ~built.ok
               THEN /\ SnapEnd(p, ExceptClause("parse", built.err, cacheFile))
                    /\ linkFile' = [exists |-> TRUE, text |-> current_link[p]]
                    /\ trace' = [trace EXCEPT ![p] =
                                   @ \o <<Step("persist_token", current_link[p]),
                                          Step("parse", current_link[p])>>]
                    /\ UNCHANGED <<cacheFile, parsed>>
               ELSE /\ Persist(p, built.df, w)
                    /\ parsed' = parsed \cup {current_link[p]}
    /\ UNCHANGED <<current_link, sfetches, sdisc, atStart, prev>>
    /\ UNCHANGED <<nvars, tvars>>

\* The dataset response arrived or failed (lines 74-96, 98-103).
SnapFetched(p, f, w) ==
    /\ spc[p] = "fetching"
    /\ IF ~f.net
       THEN /\ SnapEnd(p, ExceptClause("fetch", "ConnectError", cacheFile))
            /\ UNCHANGED <<linkFile, cacheFile, response, trace, parsed>>
       ELSE IF RaiseForStatus(f.status)
       THEN /\ SnapEnd(p, ExceptClause("fetch", "HTTPStatusError", cacheFile))
            /\ UNCHANGED <<linkFile, cacheFile, response, trace, parsed>>
       ELSE /\ response' = [response EXCEPT ![p] = f.content]
            /\ LET built == BuildFrame(f.content) IN
               IF ~built.ok
               THEN /\ SnapEnd(p, ExceptClause("parse", built.err, cacheFile))
                    /\ trace' = [trace EXCEPT ![p] =
                                   Append(@, Step("parse", current_link[p]))]
                    /\ UNCHANGED <<linkFile, cacheFile, parsed>>
               ELSE /\ Persist(p, built.df, w)
                    /\ parsed' = parsed \cup {current_link[p]}
    /\ UNCHANGED <<current_link, sfetches, sdisc, atStart, prev>>
    /\ UNCHANGED <<nvars, tvars>>

\* The process dies between line 91 and line 92 of caller p's rebuild and is
\* started again: CACHE_FILE is the new one, LINK_TRACKER the old one, and
\* nothing in memory survives.
CrashBetweenWrites(p, f) ==
    /\ spc[p] = "fetching"
    /\ f.net /\ ~RaiseForStatus(f.status) /\ BuildFrame(f.content).ok
    /\ cacheFile' = [exists |-> TRUE, rows |-> ToCsv(BuildFrame(f.content).df),
                     src |-> current_link[p]]
    /\ spc' = [q \in Callers |-> "idle"]
    /\ current_link' = [q \in Callers |-> ""]
    /\ response' = [q \in Callers |-> NoContent]
    /\ sres' = [q \in Callers |-> NoResult]
    /\ sfetches' = [q \in Callers |-> 0]
    /\ sdisc' = [q \in Callers |-> "none"]
    /\ atStart' = [q \in Callers |-> [link |-> NoLinkFile, cache |-> NoCacheFile]]
    /\ prev' = [q \in Callers |-> NoPrev]
    /\ trace' = [q \in Callers |-> <<>>]
    /\ parsed' = parsed \cup {current_link[p]}
    /\ UNCHANGED linkFile
    /\ UNCHANGED <<nvars, tvars>>

(***************************************************************************)
(* src/sahpra_utils.py                                                     *)
(***************************************************************************)

\* CACHE_LIFETIME (line 16), in seconds.
CACHE_LIFETIME == 43200

\* The timeout, in seconds, of the client that server.py hands to
\* get_sahpra_nonce: an await on a request ends within it.
ClientTimeout == 30

\* Readings of time.time(): the seconds around each multiple of the lifetime.
Instants ==
    {t \in {k * CACHE_LIFETIME + d : k \in 0..MaxPeriods, d \in {-1, 0, 1}} : t >= 0}

\* Characters of the nonce field: "a" is one of a-f0-9, "g" is not.
NonceChars == {"a", "g"}
HexChars == {"a"}

\* None, and a str.
None == [some |-> FALSE, text |-> <<>>]
Str(text) == [some |-> TRUE, text |-> text]

\* Truth value of a cached value (line 30): None and "" are false.
Truthy(v) == v.some /\ v.text # <<>>

\* The approved-licences page: whether it holds a quoted
\* ninja_table_public_nonce key followed by a quoted text, and that text.
NoncePages ==
    {[key |-> FALSE, text |-> <<>>]}
    \cup [key : {TRUE}, text : SeqsUpTo(NonceChars, MaxNonceLen)]

\* What the GET of line 39 can give.
NonceOutcomes ==
    {[net |-> FALSE, status |-> 0, page |-> [key |-> FALSE, text |-> <<>>]]}
    \cup [net : {TRUE}, status : StatusCodes, page : NoncePages]
NoOutcome == [net |-> FALSE, status |-> 0, page |-> [key |-> FALSE, text |-> <<>>]]

\* re.search of line 42: the group ([a-f0-9]+) must be non-empty, all of
\* lower-case hexadecimal digits, and closed by the quote.
NonceMatch(page) ==
    IF page.key /\ page.text # <<>>
       /\ \A i \in 1..Len(page.text) : page.text[i] \in HexChars
    THEN [found |-> TRUE, group1 |-> page.text]
    ELSE [found |-> FALSE, group1 |-> <<>>]


NoNonceResult == [kind |-> "none", value |-> None, err |-> ""]

\* Line 15, before any call.
NInit ==
    /\ clock \in Instants
    /\ nonce_cache = [value |-> None, timestamp |-> 0]
    /\ npc = [p \in Callers |-> "idle"]
    /\ now = [p \in Callers |-> 0]
    /\ nresp = [p \in Callers |-> NoOutcome]
    /\ nres = [p \in Callers |-> NoNonceResult]
    /\ nsaw = [p \in Callers |-> [value |-> None, timestamp |-> 0]]
    /\ nfetched = [p \in Callers |-> FALSE]
    /\ extracted = {}

\* Mutant of CacheFresh: the stored value is not tested.
CacheFreshTimeOnly(cache, t) == t - cache.timestamp < CACHE_LIFETIME

\* Mutant of CacheFresh: the lifetime bound is inclusive.
CacheFreshInclusive(cache, t) ==
    Truthy(cache.value) /\ (t - cache.timestamp <= CACHE_LIFETIME)

\* The condition of line 30.
CacheFresh(cache, t) ==
    Truthy(cache.value) /\ (t - cache.timestamp < CACHE_LIFETIME)

\* Mutant of StoreNonce: the timestamp is the time of the store, not the now
\* of line 28.
StoreNonceAtStoreTime(cache, value, t) == [value |-> Str(value), timestamp |-> clock]

\* Mutant of StoreNonce: the timestamp is not renewed.
StoreNonceKeepTimestamp(cache, value, t) ==
    [value |-> Str(value), timestamp |-> cache.timestamp]

\* Lines 46-47.
StoreNonce(cache, value, t) == [value |-> Str(value), timestamp |-> t]

\* Mutant of RefreshRaises: a failed refresh returns the cached value if any.
RefreshFallsBack(e, cache) ==
    IF Truthy(cache.value)
    THEN [kind |-> "value", value |-> cache.value, err |-> e]
    ELSE [kind |-> "error", value |-> None, err |-> e]

\* Lines 40 and 44: the exception leaves get_sahpra_nonce.
RefreshRaises(e, cache) == [kind |-> "error", value |-> None, err |-> e]

\* Mutant of GetNonceBegin: a lock lets one refresh run at a time, and a call
\* waits while the GET of another call is pending.
GetNonceBeginSingleFlight(p) ==
    /\ npc[p] = "idle"
    /\ \A q \in Callers \ {p} : npc[q] # "awaiting"
    /\ now' = [now EXCEPT ![p] = clock]
    /\ nsaw' = [nsaw EXCEPT ![p] = nonce_cache]
    /\ nresp' = [nresp EXCEPT ![p] = NoOutcome]
    /\ IF CacheFresh(nonce_cache, clock)
       THEN /\ nres' = [nres EXCEPT ![p] =
                          [kind |-> "value", value |-> nonce_cache.value, err |-> ""]]
            /\ nfetched' = [nfetched EXCEPT ![p] = FALSE]
            /\ UNCHANGED npc
       ELSE /\ npc' = [npc EXCEPT ![p] = "awaiting"]
            /\ nres' = [nres EXCEPT ![p] = NoNonceResult]
            /\ nfetched' = [nfetched EXCEPT ![p] = TRUE]
    /\ UNCHANGED <<clock, nonce_cache, extracted>>

\* Lines 27-39: the call reads the clock and returns the cached value, or
\* sends the GET and awaits it.
GetNonceBegin(p) ==
    /\ npc[p] = "idle"
    /\ now' = [now EXCEPT ![p] = clock]
    /\ nsaw' = [nsaw EXCEPT ![p] = nonce_cache]
    /\ nresp' = [nresp EXCEPT ![p] = NoOutcome]
    /\ IF CacheFresh(nonce_cache, clock)
       THEN /\ nres' = [nres EXCEPT ![p] =
                          [kind |-> "value", value |-> nonce_cache.value, err |-> ""]]
            /\ nfetched' = [nfetched EXCEPT ![p] = FALSE]
            /\ UNCHANGED npc
       ELSE /\ npc' = [npc EXCEPT ![p] = "awaiting"]
            /\ nres' = [nres EXCEPT ![p] = NoNonceResult]
            /\ nfetched' = [nfetched EXCEPT ![p] = TRUE]
    /\ UNCHANGED <<clock, nonce_cache, extracted>>

\* Lines 39-49: the response arrived or the GET failed.
GetNonceEnd(p, r) ==
    /\ npc[p] = "awaiting"
    /\ npc' = [npc EXCEPT ![p] = "idle"]
    /\ nresp' = [nresp EXCEPT ![p] = r]
    /\ IF ~r.net
       THEN /\ nres' = [nres EXCEPT ![p] = RefreshRaises("ConnectError", nonce_cache)]
            /\ UNCHANGED <<nonce_cache, extracted>>
       ELSE IF RaiseForStatus(r.status)
       THEN /\ nres' = [nres EXCEPT ![p] = RefreshRaises("HTTPStatusError", nonce_cache)]
            /\ UNCHANGED <<nonce_cache, extracted>>
       ELSE LET match == NonceMatch(r.page) IN
            IF ~match.found
            THEN /\ nres' = [nres EXCEPT ![p] = RefreshRaises("ValueError", nonce_cache)]
                 /\ UNCHANGED <<nonce_cache, extracted>>
            ELSE /\ nonce_cache' = StoreNonce(nonce_cache, match.group1, now[p])
                 /\ extracted' = extracted \cup {Str(match.group1)}
                 /\ nres' = [nres EXCEPT ![p] =
                               [kind |-> "value", value |-> nonce_cache'.value, err |-> ""]]
    /\ UNCHANGED <<clock, now, nsaw, nfetched>>

\* get_sahpra_nonce called on its own (lines 53-64), and its GET ending.
NonceCall(p) ==
    /\ tpc[p] = "idle"
    /\ GetNonceBegin(p)
    /\ UNCHANGED <<svars, tvars>>

NonceResponse(p, r) ==
    /\ tpc[p] = "idle"
    /\ GetNonceEnd(p, r)
    /\ UNCHANGED <<svars, tvars>>

\* Time passes; a pending GET ends within the client's timeout.
Tick(t) ==
    /\ t \in Instants
    /\ t > clock
    /\ \A p \in Callers : npc[p] = "awaiting" => t - now[p] <= ClientTimeout
    /\ clock' = t
    /\ UNCHANGED <<nonce_cache, npc, now, nresp, nres, nsaw, nfetched, extracted>>
    /\ UNCHANGED <<svars, tvars>>

(***************************************************************************)
(* src/server.py: get_licensed_companies                                   *)
(***************************************************************************)

\* Two of the ten entries of TABLE_MAP (lines 62-73).
TABLE_MAP ==
    [c \in {"Bond Stores", "Manufacturers & Packers"} |->
        IF c = "Bond Stores" THEN "6972" ELSE "6968"]

\* Categories a caller may name: the keys above and one TABLE_MAP lacks.
Categories == DOMAIN TABLE_MAP \cup {"Wholesalers"}

\* TABLE_MAP.get(category) of line 75: None, here "", for a missing key.
TableGet(category) == IF category \in DOMAIN TABLE_MAP THEN TABLE_MAP[category] ELSE ""

\* What the GET of line 93 can give: no answer, or a status and a body that
\* is no JSON ("invalid"), an empty JSON list ("empty") or a list of rows.
DataOutcomes ==
    {[net |-> FALSE, status |-> 0, body |-> "invalid"]}
    \cup [net : {TRUE}, status : StatusCodes, body : {"invalid", "empty", "rows"}]
NoData == [net |-> FALSE, status |-> 0, body |-> "invalid"]

NoRequest == [sent |-> FALSE, table_id |-> "", nonce |-> None]
\* kind: "none" (no call ended yet), "str" (a string was returned), "raised"
\* (an exception left the tool). In the texts ' stands for the back quote.
NoToolResult == [kind |-> "none", text |-> ""]
Returned(text) == [kind |-> "str", text |-> text]

TInit ==
    /\ tpc = [p \in Callers |-> "idle"]
    /\ tcat = [p \in Callers |-> ""]
    /\ tres = [p \in Callers |-> NoToolResult]
    /\ treq = [p \in Callers |-> NoRequest]
    /\ tresp = [p \in Callers |-> NoData]
    /\ tnet = [p \in Callers |-> 0]
    /\ tslot = [p \in Callers |-> [value |-> None, timestamp |-> 0]]

\* Mutant of ToolExcept: the exception leaves the tool.
ToolExceptReraise(e) == [kind |-> "raised", text |-> e]

\* Lines 104-105.
ToolExcept(e) == Returned("Failed to retrieve companies: " \o e)

\* Lines 83-93: the request for the table, carrying the nonce; sent counts
\* the requests the call sent before it.
SendDataRequest(p, category, nonce, sent) ==
    /\ tpc' = [tpc EXCEPT ![p] = "data"]
    /\ treq' = [treq EXCEPT ![p] =
                  [sent |-> TRUE, table_id |-> TableGet(category), nonce |-> nonce]]
    /\ tnet' = [tnet EXCEPT ![p] = sent + 1]

\* Lines 75-93: the tool is called with a category. An unknown one ends the
\* call at line 77; otherwise get_sahpra_nonce runs up to its return or its
\* await, and on a cached nonce the request of line 93 is sent at once.
ToolCall(p, category) ==
    /\ tpc[p] = "idle" /\ npc[p] = "idle"
    /\ tcat' = [tcat EXCEPT ![p] = category]
    /\ tresp' = [tresp EXCEPT ![p] = NoData]
    /\ IF TableGet(category) = ""
       THEN /\ tres' = [tres EXCEPT ![p] =
                          Returned("Error: The category '" \o category \o "' was not found.")]
            /\ treq' = [treq EXCEPT ![p] = NoRequest]
            /\ tnet' = [tnet EXCEPT ![p] = 0]
            /\ tslot' = [tslot EXCEPT ![p] = nonce_cache]
            /\ UNCHANGED <<tpc, nvars>>
       ELSE /\ GetNonceBegin(p)
            /\ tres' = [tres EXCEPT ![p] = NoToolResult]
            /\ tslot' = [tslot EXCEPT ![p] = nonce_cache]
            /\ IF npc'[p] = "awaiting"
               THEN /\ tpc' = [tpc EXCEPT ![p] = "nonce"]
                    /\ treq' = [treq EXCEPT ![p] = NoRequest]
                    /\ tnet' = [tnet EXCEPT ![p] = 1]
               ELSE SendDataRequest(p, category, nres'[p].value, 0)
    /\ UNCHANGED svars

\* Lines 81-93, 104-105: the GET of get_sahpra_nonce ended; with a nonce the
\* request of line 93 is sent, with an exception the tool returns.
ToolNonceResponse(p, r) ==
    /\ tpc[p] = "nonce"
    /\ GetNonceEnd(p, r)
    /\ tslot' = [tslot EXCEPT ![p] = nonce_cache']
    /\ IF nres'[p].kind = "value"
       THEN /\ SendDataRequest(p, tcat[p], nres'[p].value, tnet[p])
            /\ UNCHANGED tres
       ELSE /\ tpc' = [tpc EXCEPT ![p] = "idle"]
            /\ tres' = [tres EXCEPT ![p] = ToolExcept(nres'[p].err)]
            /\ UNCHANGED <<treq, tnet>>
    /\ UNCHANGED <<tcat, tresp>>
    /\ UNCHANGED svars

\* Lines 93-105: the table request ended.
ToolData(p, o) ==
    /\ tpc[p] = "data"
    /\ tpc' = [tpc EXCEPT ![p] = "idle"]
    /\ tresp' = [tresp EXCEPT ![p] = o]
    /\ tres' = [tres EXCEPT ![p] =
                  IF ~o.net THEN ToolExcept("ConnectError")
                  ELSE IF RaiseForStatus(o.status) THEN ToolExcept("HTTPStatusError")
                  ELSE IF o.body = "invalid" THEN ToolExcept("JSONDecodeError")
                  ELSE IF o.body = "empty" THEN Returned("No records for '" \o tcat[p] \o "'")
                  ELSE Returned("<markdown table>")]
    /\ UNCHANGED <<tcat, treq, tnet, tslot>>
    /\ UNCHANGED <<svars, nvars>>

Init == SInit /\ NInit /\ TInit

\* One caller of the tool at a time.
TNext ==
    \/ \E category \in Categories : ToolCall(1, category)
    \/ \E r \in NonceOutcomes : ToolNonceResponse(1, r)
    \/ \E o \in DataOutcomes : ToolData(1, o)
    \/ \E t \in Instants : Tick(t)

SpecTool == Init /\ [][TNext]_vars

\* One caller at a time.
NNext ==
    \/ NonceCall(1)
    \/ \E r \in NonceOutcomes : NonceResponse(1, r)
    \/ \E t \in Instants : Tick(t)

SpecNonce == Init /\ [][NNext]_vars

\* One caller at a time (section 5 of the design: a single logical caller per
\* cache instance).
SNext ==
    \/ SnapBegin(1)
    \/ \E d \in DiscoveryOutcomes, readOk \in BOOLEAN : SnapDiscovered(1, d, readOk)
    \/ \E f \in FetchOutcomes, w \in PersistOutcomes : SnapFetched(1, f, w)
    \/ \E f \in FetchOutcomes : CrashBetweenWrites(1, f)

\* The nonce slot plays no part in these calls: the clock stands still.
SnapshotInit == Init /\ clock = 0

SpecSnapshot == SnapshotInit /\ [][SNext]_vars

(***************************************************************************)
(* Two callers whose calls interleave at the awaits. The two caches share  *)
(* no state, so their interleavings are explored one after the other: the  *)
(* calls of get_sahpra_nonce first, and the calls of                       *)
(* get_latest_ndoh_prod_list_df from the state in which both GETs of the   *)
(* nonce page are pending.                                                 *)
(***************************************************************************)

\* No call of get_latest_ndoh_prod_list_df was made yet.
SnapshotsIdle == \A p \in Callers : spc[p] = "idle" /\ sres[p].kind = "none"

\* Both callers await the GET of line 39, sent at clock 0.
BothGetsPending == clock = 0 /\ \A p \in Callers : npc[p] = "awaiting"

\* Answers to the interleaved GETs of the nonce page: none, or a page with
\* a nonce.
RaceNonceOutcomes ==
    {r \in NonceOutcomes : ~r.net \/ (r.status = 200 /\ NonceMatch(r.page).found)}

RaceNonceCall(p) == SnapshotsIdle /\ NonceCall(p)
RaceNonceResponse(p, r) == SnapshotsIdle /\ NonceResponse(p, r)
RaceTick(t) == SnapshotsIdle /\ Tick(t)

\* Listing pages and downloads of the interleaved calls: no answer, or a
\* page with one workbook link, and a workbook of at most one row.
RaceDiscoveries ==
    {d \in DiscoveryOutcomes :
        ~d.net \/ (d.status = 200 /\ Len(d.page) = 1 /\ HrefMatches(d.page[1]))}
RaceFetches ==
    {f \in FetchOutcomes :
        ~f.net \/ (f.status = 200 /\ f.content.ncols > LastTargetColumn
                     /\ Len(f.content.rows) <= 1)}

\* Each caller makes at most two calls.
RaceSnapBegin(p) == BothGetsPending /\ ~prev[p].ended /\ SnapBegin(p)

RaceNext ==
    \/ \E p \in Callers : RaceNonceCall(p)
    \/ \E p \in Callers, r \in RaceNonceOutcomes : RaceNonceResponse(p, r)
    \/ \E t \in Instants : RaceTick(t)
    \/ \E p \in Callers : RaceSnapBegin(p)
    \/ \E p \in Callers, d \in RaceDiscoveries : SnapDiscovered(p, d, TRUE)
    \/ \E p \in Callers, f \in RaceFetches, w \in PersistOutcomes : SnapFetched(p, f, w)

SpecRace == Init /\ [][RaceNext]_vars

(***************************************************************************)
(* Properties of get_sahpra_nonce.                                         *)
(***************************************************************************)

\* A call of p was made (it has ended or awaits its GET).
Called(p) == nres[p].kind # "none" \/ npc[p] = "awaiting"

\* What kind of answer the GET of line 39 gave: no answer, an error status,
\* a page without a quoted lower-case hexadecimal nonce, or a page with one.
NonceClass(r) ==
    IF ~r.net THEN "transport"
    ELSE IF r.status >= 300 \/ r.status < 200 THEN "status"
    ELSE IF ~r.page.key \/ Len(r.page.text) = 0
            \/ \E i \in 1..Len(r.page.text) : r.page.text[i] \notin HexChars
         THEN "nomatch"
    ELSE "nonce"

\* The exception each kind of failed GET raises.
NonceError(class) ==
    CASE class = "transport" -> "ConnectError"
      [] class = "status" -> "HTTPStatusError"
      [] class = "nomatch" -> "ValueError"
      [] OTHER -> ""

\* C7 (TTL boundary): a call that finds a stored nonce of issuance time t0
\* and reads the clock at t returns that nonce without a GET when
\* t - t0 < 43200, and issues the GET when t - t0 >= 43200.
C7_TtlBoundary ==
    \A p \in Callers :
        (Called(p) /\ Truthy(nsaw[p].value))
        => /\ (now[p] - nsaw[p].timestamp < 43200)
                => /\ npc[p] = "idle"
                   /\ ~nfetched[p]
                   /\ nres[p].kind = "value"
                   /\ nres[p].value = nsaw[p].value
           /\ (now[p] - nsaw[p].timestamp >= 43200) => nfetched[p]

\* A call 43199 seconds after the issuance returned the stored nonce.
C7_Witness ==
    \E p \in Callers :
        /\ Truthy(nsaw[p].value)
        /\ now[p] - nsaw[p].timestamp = 43199
        /\ nres[p].kind = "value" /\ ~nfetched[p]

\* C8 (no fallback): a call that finds an expired nonce and whose GET fails,
\* or whose page holds no nonce, ends by raising that error; the expired
\* nonce is not returned and _nonce_cache is as the call found it.
C8_NoFallback ==
    \A p \in Callers :
        (/\ npc[p] = "idle" /\ nfetched[p]
         /\ Truthy(nsaw[p].value)
         /\ now[p] - nsaw[p].timestamp >= 43200
         /\ NonceClass(nresp[p]) # "nonce")
        => /\ nres[p].kind = "error"
           /\ nres[p].err = NonceError(NonceClass(nresp[p]))
           /\ nonce_cache = nsaw[p]

\* An expired nonce, a page without nonce: ValueError, slot untouched.
C8_Witness ==
    \E p \in Callers :
        /\ npc[p] = "idle" /\ nfetched[p]
        /\ Truthy(nsaw[p].value)
        /\ now[p] - nsaw[p].timestamp >= 43200
        /\ NonceClass(nresp[p]) = "nomatch"
        /\ nres[p].kind = "error"
        /\ nonce_cache = nsaw[p]

\* The state of the slot at time t.
SlotState(cache, t) ==
    IF ~Truthy(cache.value) THEN "EMPTY"
    ELSE IF t - cache.timestamp < 43200 THEN "VALID"
    ELSE "EXPIRED"

\* In this step the GET of caller p ended.
ResponseStep(p) == npc[p] = "awaiting" /\ npc'[p] = "idle"

\* The steps the slot may take.
SlotStep ==
    LET a == SlotState(nonce_cache, clock)
        b == SlotState(nonce_cache', clock')
    IN /\ \/ /\ nonce_cache' = nonce_cache
             /\ \/ a = b
                \/ a = "VALID" /\ b = "EXPIRED" /\ clock' > clock
          \/ /\ nonce_cache' # nonce_cache
             /\ a \in {"EMPTY", "EXPIRED"} /\ b = "VALID"
             /\ \E p \in Callers : ResponseStep(p) /\ NonceClass(nresp'[p]) = "nonce"
       /\ \A p \in Callers :
            ResponseStep(p) =>
              IF NonceClass(nresp'[p]) = "nonce"
              THEN /\ b = "VALID"
                   /\ nonce_cache' = [value |-> Str(nresp'[p].page.text),
                                      timestamp |-> now[p]]
                   /\ nres'[p] = [kind |-> "value", value |-> nonce_cache'.value, err |-> ""]
              ELSE /\ nonce_cache' = nonce_cache
                   /\ b \in {"EMPTY", "EXPIRED"}
                   /\ nres'[p].kind = "error"

\* From every state a call can be made, or the pending GET can succeed.
NoTerminalState ==
    \A p \in Callers :
        /\ npc[p] = "idle" => ENABLED NonceCall(p)
        /\ npc[p] = "awaiting"
             => \E r \in NonceOutcomes : NonceClass(r) = "nonce" /\ ENABLED NonceResponse(p, r)

\* C9 (state machine): the slot moves only EMPTY -> VALID and EXPIRED -> VALID
\* (by the store of a successful GET) and VALID -> EXPIRED (by time passing);
\* it never becomes EMPTY again; a failed GET leaves it as it is, EMPTY or
\* EXPIRED; a successful GET leaves it VALID with the fetched nonce; and no
\* state is terminal.
C9_StateMachine == [][SlotStep]_vars /\ []NoTerminalState

\* An expired slot became VALID again with another nonce.
C9_Witness ==
    \E p \in Callers :
        /\ npc[p] = "idle" /\ nfetched[p]
        /\ SlotState(nsaw[p], now[p]) = "EXPIRED"
        /\ SlotState(nonce_cache, clock) = "VALID"
        /\ nonce_cache.value # nsaw[p].value
        /\ nonce_cache.timestamp = now[p]

(***************************************************************************)
(* Properties of get_latest_ndoh_prod_list_df.                             *)
(***************************************************************************)

\* The last call of p has ended.
Ended(p) == spc[p] = "idle" /\ sres[p].kind # "none"

\* The token a LINK_TRACKER file holds ("" when there is none).
PersistedToken(lf) == IF lf.exists THEN lf.text ELSE ""

\* C1 (fallback correctness): a call in which discovery or the dataset fetch
\* failed and that found a persisted snapshot when it began returned exactly
\* that snapshot, and left CACHE_FILE and LINK_TRACKER as they were.
C1_FallbackCorrectness ==
    \A p \in Callers :
        (Ended(p) /\ sres[p].failed \in {"discovery", "fetch"} /\ atStart[p].cache.exists)
        => /\ sres[p].kind = "df"
           /\ sres[p].df = ReadCsv(atStart[p].cache.rows)
           /\ cacheFile = atStart[p].cache
           /\ linkFile = atStart[p].link

\* A call found the pair (T_old, two-row snapshot), discovered another link,
\* its dataset fetch failed and it returned the two rows.
C1_Witness ==
    \E p \in Callers :
        /\ Ended(p) /\ sres[p].failed = "fetch"
        /\ atStart[p].cache.exists /\ atStart[p].link.exists
        /\ atStart[p].link.text # current_link[p]
        /\ linkFile.text = atStart[p].link.text
        /\ Len(sres[p].df) = 2

\* C2 (availability over freshness): whatever step of a call failed, if
\* CACHE_FILE exists when it failed the call returned the snapshot in it; an
\* exception reached the caller only with no CACHE_FILE on disk.
C2_AvailabilityOverFreshness ==
    \A p \in Callers :
        Ended(p) =>
          /\ (sres[p].failed # "none" /\ cacheFile.exists)
                => (sres[p].kind = "df" /\ sres[p].df = ReadCsv(cacheFile.rows))
          /\ sres[p].kind = "error"
                => (sres[p].failed # "none" /\ ~cacheFile.exists /\ ~atStart[p].cache.exists)

\* to_csv raised in a call that found a snapshot: the call returned it.
C2_Witness ==
    \E p \in Callers :
        /\ Ended(p) /\ sres[p].failed = "csvwrite"
        /\ sres[p].kind = "df" /\ Len(sres[p].df) > 0

\* The exception each kind of failed listing GET raises.
DiscoveryError(class) ==
    CASE class = "transport" -> "ConnectError"
      [] class = "status" -> "HTTPStatusError"
      [] class = "nolink" -> "ValueError"
      [] OTHER -> ""

\* C3 (hard failure): when the listing GET fails, or its page has no
\* matching link, and no CACHE_FILE exists, the call ends at once by raising
\* the discovery error itself; it returns no frame and writes neither file.
C3_HardFailure ==
    \A p \in Callers :
        (sdisc[p] \in {"transport", "status", "nolink"} /\ ~atStart[p].cache.exists)
        => /\ Ended(p)
           /\ sres[p].kind = "error"
           /\ sres[p].failed = "discovery"
           /\ sres[p].err = DiscoveryError(sdisc[p])
           /\ sfetches[p] = 0
           /\ ~cacheFile.exists
           /\ linkFile = atStart[p].link

\* A page without a matching link, nothing on disk: ValueError reached the caller.
C3_Witness ==
    \E p \in Callers :
        /\ sdisc[p] = "nolink" /\ Ended(p)
        /\ sres[p].kind = "error" /\ sres[p].err = "ValueError"
        /\ ~cacheFile.exists /\ ~linkFile.exists

\* Two consecutive calls of p that both returned a frame without any failure
\* and discovered the same link.
SameTokenPair(p) ==
    /\ Ended(p) /\ prev[p].ended
    /\ prev[p].kind = "df" /\ prev[p].failed = "none"
    /\ sres[p].kind = "df" /\ sres[p].failed = "none"
    /\ prev[p].link = current_link[p]

\* A call whose discovered link is the persisted one, with a CACHE_FILE, issues
\* no dataset GET, returns the persisted snapshot and writes nothing.
HitIsFree(p) ==
    (current_link[p] # "" /\ PersistedToken(atStart[p].link) = current_link[p]
       /\ atStart[p].cache.exists)
    => /\ sfetches[p] = 0
       /\ Ended(p)
       /\ sres[p].kind = "df"
       /\ sres[p].df = ReadCsv(atStart[p].cache.rows)
       /\ cacheFile = atStart[p].cache
       /\ linkFile = atStart[p].link

\* C4 as stated (freshness idempotence): two consecutive successful calls
\* with the same discovered token perform exactly one dataset fetch in total,
\* and a cache hit fetches nothing and changes nothing.
C4_ExactlyOneFetch ==
    \A p \in Callers :
        /\ SameTokenPair(p) => prev[p].fetches + sfetches[p] = 1
        /\ HitIsFree(p)

\* C4 as amended: two consecutive successful calls with the same discovered
\* token perform at most one dataset fetch in total, none of it in the second
\* call, and one exactly when the first call rebuilt the cache; a cache hit
\* fetches nothing and changes nothing.
C4_AtMostOneFetch ==
    \A p \in Callers :
        /\ SameTokenPair(p)
             => /\ sfetches[p] = 0
                /\ sres[p].via = "hit"
                /\ prev[p].fetches <= 1
                /\ (prev[p].fetches = 1) <=> (prev[p].via = "fresh")
        /\ HitIsFree(p)

\* A rebuild followed by a call that discovers the same link and hits.
C4_Witness ==
    \E p \in Callers :
        /\ SameTokenPair(p)
        /\ prev[p].via = "fresh" /\ prev[p].fetches = 1
        /\ sres[p].via = "hit" /\ sfetches[p] = 0

\* C5 (invalidation on change): a call that discovered a link and read the
\* persisted one, and found them different or found no CACHE_FILE, issues a
\* dataset GET; when nothing fails, it returns the frame built from that
\* response, and LINK_TRACKER holds the discovered link and CACHE_FILE that
\* frame, built from the download at that link.
C5_InvalidationOnChange ==
    \A p \in Callers :
        (/\ current_link[p] # ""
         /\ sres[p].failed # "tokenread"
         /\ \/ PersistedToken(atStart[p].link) # current_link[p]
            \/ ~atStart[p].cache.exists)
        => /\ sfetches[p] = 1
           /\ (Ended(p) /\ sres[p].failed = "none")
                => /\ sres[p].via = "fresh"
                   /\ sres[p].df = DropNa(ReadExcel(response[p]))
                   /\ linkFile = [exists |-> TRUE, text |-> current_link[p]]
                   /\ cacheFile = [exists |-> TRUE, rows |-> ToCsv(sres[p].df),
                                    src |-> current_link[p]]

\* A call found a pair for another link and rebuilt both files.
C5_Witness ==
    \E p \in Callers :
        /\ Ended(p) /\ sres[p].via = "fresh"
        /\ atStart[p].cache.exists /\ atStart[p].link.exists
        /\ atStart[p].link.text # current_link[p]
        /\ linkFile.text = current_link[p]
        /\ Len(sres[p].df) > 0

\* C6 (snapshot/token pairing): in every state of the durable store the
\* snapshot in CACHE_FILE was built from the link in LINK_TRACKER.
C6_PairedOnDisk ==
    /\ cacheFile.exists => (linkFile.exists /\ linkFile.text = cacheFile.src)
    /\ linkFile.exists => cacheFile.exists

\* The source rows of a workbook whose Description is present.
WithDescription(content) == {i \in 1..Len(content.rows) : ~content.rows[i].na}

\* df holds exactly the source rows with a Description, in source order.
IsFilterOf(df, content) ==
    /\ {df[i].id : i \in 1..Len(df)} = WithDescription(content)
    /\ \A i \in 1..Len(df) : df[i].Description = content.rows[df[i].id]
    /\ \A i, j \in 1..Len(df) : i < j => df[i].id < df[j].id

\* C10 (row filtering at normalization): the frame a rebuild returns and the
\* snapshot it persists hold exactly the source rows with a Description, in
\* source order; no frame any call returns, and no CACHE_FILE, holds a row
\* without one.
C10_RowFiltering ==
    /\ \A p \in Callers :
         /\ (Ended(p) /\ (sres[p].via = "fresh" \/ sres[p].failed = "linkwrite"))
              => /\ IsFilterOf(sres[p].df, response[p])
                 /\ IsFilterOf(ReadCsv(cacheFile.rows), response[p])
         /\ \A i \in 1..Len(sres[p].df) : ~sres[p].df[i].Description.na
    /\ \A i \in 1..Len(cacheFile.rows) : ~ReadCsv(cacheFile.rows)[i].Description.na

\* Three source rows, the second without a Description: a two-row snapshot.
C10_Witness ==
    \E p \in Callers :
        /\ Ended(p) /\ sres[p].via = "fresh"
        /\ Len(response[p].rows) = 3
        /\ WithDescription(response[p]) = {1, 3}
        /\ Len(sres[p].df) = 2
        /\ Len(cacheFile.rows) = 2
\* A step that changes LINK_TRACKER ends a rebuild: the call of some caller
\* discovered a link, fetched and parsed its download, wrote CACHE_FILE and
\* returns the new frame, and the text written is that link.
TokenStep ==
    linkFile' # linkFile
    => \E p \in Callers :
          /\ spc[p] = "fetching" /\ spc'[p] = "idle"
          /\ sdisc[p] = "link"
          /\ BuildFrame(response'[p]).ok
          /\ sres'[p].via = "fresh" /\ sres'[p].failed = "none"
          /\ cacheFile' = [exists |-> TRUE, rows |-> ToCsv(sres'[p].df),
                           src |-> current_link[p]]
          /\ linkFile' = [exists |-> TRUE, text |-> current_link[p]]

\* C11 (persisted-token provenance): LINK_TRACKER changes only in the step
\* that ends a successful discovery, fetch and parse of the link it then
\* holds; a link in LINK_TRACKER is one whose download some earlier call
\* fetched and parsed; a call that failed in discovery, fetch or parse left
\* LINK_TRACKER as it found it.
C11_TokenProvenance ==
    /\ [][TokenStep]_vars
    /\ [](linkFile.exists => (linkFile.text # "" /\ linkFile.text \in parsed))
    /\ [](\A p \in Callers :
            (Ended(p) /\ sres[p].failed \in {"discovery", "fetch", "parse"})
            => linkFile = atStart[p].link)

\* A call whose download could not be parsed ended while LINK_TRACKER holds
\* another link, stored by an earlier rebuild.
C11_Witness ==
    \E p \in Callers :
        /\ Ended(p) /\ sres[p].failed = "parse"
        /\ linkFile.exists /\ linkFile.text # current_link[p]
        /\ linkFile.text \in parsed
        /\ prev[p].ended /\ prev[p].via = "fresh"

\* The names of the steps of a trace.
Ops(t) == [i \in 1..Len(t) |-> t[i].op]

\* The order of the steps of lines 62-93.
CallOrder == <<"discover", "compare", "fetch", "parse", "persist_snapshot", "persist_token">>

IsPrefix(s, t) == Len(s) <= Len(t) /\ \A i \in 1..Len(s) : s[i] = t[i]

\* C12 (discovery-first ordering): the steps of every call, begun or ended,
\* are a non-empty prefix of discover, compare, fetch, parse, persist
\* snapshot, persist token (so discovery is its first step and happens
\* once, whatever the files hold); a dataset GET is issued only after the
\* discovery of that call gave a link, and requests that link.
C12_DiscoveryFirst ==
    \A p \in Callers :
        (Ended(p) \/ spc[p] # "idle")
        => /\ Len(trace[p]) >= 1
           /\ IsPrefix(Ops(trace[p]), CallOrder)
           /\ trace[p][1] = Step("discover", Origin)
           /\ sfetches[p] = Cardinality({i \in 1..Len(trace[p]) : trace[p][i].op = "fetch"})
           /\ \A i \in 1..Len(trace[p]) :
                 trace[p][i].op = "fetch"
                 => /\ sdisc[p] = "link"
                    /\ current_link[p] \in Tokens
                    /\ trace[p][i].arg = current_link[p]

\* A call that found both files took all six steps, discovery first.
C12_Witness ==
    \E p \in Callers :
        /\ Ended(p) /\ sres[p].via = "fresh"
        /\ atStart[p].link.exists /\ atStart[p].cache.exists
        /\ Ops(trace[p]) = CallOrder

\* C14 (cache-hit soundness): the frame a call returns through the cache hit
\* of lines 69-71 is the snapshot built from the download of the link that
\* call discovered.
C14_HitIsSound ==
    \A p \in Callers :
        (Ended(p) /\ sres[p].via = "hit")
        => /\ cacheFile.exists
           /\ sres[p].df = ReadCsv(cacheFile.rows)
           /\ cacheFile.src = current_link[p]

\* C15 (recovery after failures): a call in which nothing failed, whatever
\* the files held when it began, leaves LINK_TRACKER with the link it
\* discovered and CACHE_FILE with the snapshot of that link; the call that
\* follows it and discovers the same link issues no dataset GET.
C15_Recovery ==
    \A p \in Callers :
        /\ (Ended(p) /\ sres[p].failed = "none")
             => /\ linkFile = [exists |-> TRUE, text |-> current_link[p]]
                /\ cacheFile.exists /\ cacheFile.src = current_link[p]
        /\ (Ended(p) /\ sres[p].failed = "none" /\ prev[p].ended
               /\ prev[p].failed = "none" /\ prev[p].link = current_link[p])
             => sfetches[p] = 0

\* The slot as line 15 leaves it: no value was ever stored.
EmptySlot == [value |-> None, timestamp |-> 0]

\* C16 (EMPTY always fetches): a call that finds the slot as line 15 left it
\* issues the GET, whatever the clock reads; a value a call returns is a
\* non-empty str that line 42 extracted from a response, and so is the
\* value the slot holds once it holds one.
C16_EmptyAlwaysFetches ==
    /\ \A p \in Callers :
         /\ (Called(p) /\ nsaw[p] = EmptySlot) => nfetched[p]
         /\ nres[p].kind = "value"
              => /\ Truthy(nres[p].value)
                 /\ nres[p].value \in extracted
    /\ nonce_cache # EmptySlot
         => (Truthy(nonce_cache.value) /\ nonce_cache.value \in extracted)

\* A call at a clock reading below the lifetime found the slot empty, issued
\* the GET and returned the value extracted from its response.
C16_Witness ==
    \E p \in Callers :
        /\ nsaw[p] = EmptySlot /\ now[p] - 0 < CACHE_LIFETIME
        /\ nfetched[p] /\ npc[p] = "idle"
        /\ nres[p].kind = "value"
        /\ nres[p].value = Str(nresp[p].page.text)

(***************************************************************************)
(* Properties of get_licensed_companies.                                   *)
(***************************************************************************)

\* The last call of the tool by p has ended.
ToolEnded(p) == tpc[p] = "idle" /\ tres[p].kind # "none"

\* The exception the table request of line 93-96 ends in ("" when none).
DataError(o) ==
    IF ~o.net THEN "ConnectError"
    ELSE IF RaiseForStatus(o.status) THEN "HTTPStatusError"
    ELSE IF o.body = "invalid" THEN "JSONDecodeError"
    ELSE ""

\* C18 (tool-level nonce ordering and error conversion): the table request
\* of a call is sent only after get_sahpra_nonce returned a value in that
\* call, and carries it; a call with an unknown category returns the error
\* string, having sent no request and left the nonce slot as it was; a call
\* in which get_sahpra_nonce or the table request raised returns the
\* "Failed to retrieve companies" string, with the slot as get_sahpra_nonce
\* left it; no call ends in an exception.
C18_ToolOrdering ==
    \A p \in Callers :
        /\ tres[p].kind # "raised"
        /\ treq[p].sent
             => /\ nres[p].kind = "value" /\ npc[p] = "idle"
                /\ Truthy(treq[p].nonce)
                /\ treq[p].nonce = nres[p].value
                /\ treq[p].table_id = TABLE_MAP[tcat[p]]
        /\ (ToolEnded(p) /\ tcat[p] \notin DOMAIN TABLE_MAP)
             => /\ tres[p] = Returned("Error: The category '" \o tcat[p] \o "' was not found.")
                /\ tnet[p] = 0 /\ ~treq[p].sent
                /\ nonce_cache = tslot[p]
        /\ (ToolEnded(p) /\ tcat[p] \in DOMAIN TABLE_MAP /\ nres[p].kind = "error")
             => /\ tres[p] = Returned("Failed to retrieve companies: " \o nres[p].err)
                /\ ~treq[p].sent
                /\ nonce_cache = tslot[p] /\ nonce_cache = nsaw[p]
        /\ (ToolEnded(p) /\ treq[p].sent /\ DataError(tresp[p]) # "")
             => /\ tres[p] = Returned("Failed to retrieve companies: " \o DataError(tresp[p]))
                /\ nonce_cache = tslot[p]
                /\ nonce_cache.value = treq[p].nonce

\* A call fetched a new nonce, sent the table request with it, and the
\* request failed: the string is returned and the new nonce stays stored.
C18_Witness ==
    \E p \in Callers :
        /\ ToolEnded(p) /\ treq[p].sent /\ tnet[p] = 2
        /\ nfetched[p] /\ nsaw[p].value # nonce_cache.value
        /\ tresp[p].net /\ RaiseForStatus(tresp[p].status)
        /\ tres[p] = Returned("Failed to retrieve companies: HTTPStatusError")

(***************************************************************************)
(* Properties of interleaved calls.                                        *)
(***************************************************************************)

\* C13 (duplicate-fetch race): a call of get_sahpra_nonce that finds the slot
\* empty or expired sends the GET also while the GET of another call is
\* pending, and a call of get_latest_ndoh_prod_list_df whose discovery gives
\* a link that line 69 does not accept sends the dataset GET also while
\* another call is fetching that link: nothing holds the second call back.
C13_DuplicateFetchRace ==
    /\ \A p \in Callers :
         (Called(p) /\ ~CacheFresh(nsaw[p], now[p])) => nfetched[p]
    /\ \A p, q \in Callers :
         (p # q /\ npc[q] = "awaiting" /\ npc[p] = "idle" /\ tpc[p] = "idle"
            /\ ~CacheFresh(nonce_cache, clock))
         => ENABLED (NonceCall(p) /\ npc'[p] = "awaiting")
    /\ \A p, q \in Callers :
         (p # q /\ spc[q] = "fetching" /\ spc[p] = "discovering"
            /\ ~CacheUpToDate(LastLink(linkFile), current_link[q], cacheFile))
         => ENABLED (\E d \in DiscoveryOutcomes :
                        /\ SnapDiscovered(p, d, TRUE)
                        /\ spc'[p] = "fetching"
                        /\ current_link'[p] = current_link[q])

\* Both callers found the slot empty and await the GET of the nonce page, and
\* both found the same new link and await the GET of its dataset.
C13_Witness ==
    /\ \A p \in Callers : npc[p] = "awaiting" /\ nfetched[p] /\ nsaw[p] = EmptySlot
    /\ \A p \in Callers : spc[p] = "fetching" /\ sfetches[p] = 1
    /\ current_link[1] = current_link[2]
    /\ linkFile.exists /\ linkFile.text # current_link[1]

\* A step that writes the slot is the end of the GET of one call, and stores
\* the value that call extracted together with the now of that call.
PairedStore ==
    nonce_cache' # nonce_cache
    => \E p \in Callers :
          /\ ResponseStep(p)
          /\ NonceClass(nresp'[p]) = "nonce"
          /\ nres'[p] = [kind |-> "value", value |-> Str(nresp'[p].page.text), err |-> ""]
          /\ nonce_cache' = [value |-> nres'[p].value, timestamp |-> now[p]]

====
